---------------------------- MODULE Spec2Model ----------------------------
(***************************************************************************)
(* Model of @fixers/s3: the timestamp / expiration helpers (the two        *)
(* definitions of epoch and of expirationIn), the temporary signed URLs    *)
(* that use them, and the S3Drive operations over an object store.         *)
(*                                                                         *)
(* JavaScript numbers are modelled as exact signed fixed-point decimals in *)
(* base 1000 (one "limb" per power of 1000), together with the three       *)
(* non-finite values NaN, +Infinity and -Infinity.  The thresholds of the  *)
(* code (1e7, 1e10, 1e13, 1e16) and its conversion factor (1000) do not    *)
(* fit the model checker's machine integers, so every arithmetic step of   *)
(* the code is carried out on limbs.  The inputs the model draws are all   *)
(* exactly representable IEEE doubles (integers below 2^53, halves below   *)
(* 2^52, even integers up to 1e16, 1e17), and on them every operation of   *)
(* the code is exact in double arithmetic, so the limb arithmetic gives    *)
(* the values the program computes.                                        *)
(***************************************************************************)
EXTENDS Integers, Sequences, FiniteSets, TLC

VARIABLES now, ticks, call, result, sign, store, drive

vars == <<now, ticks, call, result, sign, store, drive>>

---------------------------------------------------------------------------
(* Bounds of the model.                                                    *)

\* Integer limbs of a number: units, 1000, ..., 1000^(IntLimbs-1).
IntLimbs == 7
\* Fractional limbs of a number: 1000^-1, ..., 1000^-FracLimbs.
FracLimbs == 2
\* How many neighbours of each anchor value, on either side, are inputs.
Delta == 2
\* How many times the wall clock advances in a behaviour.
MaxTicks == 2

---------------------------------------------------------------------------
(* Numbers.                                                                *)

\* The factor between seconds, milliseconds and microseconds.
Base == 1000

NL == FracLimbs + IntLimbs
U == FracLimbs + 1              \* index of the units limb

ZeroM == [i \in 1..NL |-> 0]

Fin(neg, m) == [k |-> "fin", neg |-> (neg /\ m # ZeroM), m |-> m]
NaN == [k |-> "nan", neg |-> FALSE, m |-> ZeroM]
PInf == [k |-> "pinf", neg |-> FALSE, m |-> ZeroM]
NInf == [k |-> "ninf", neg |-> TRUE, m |-> ZeroM]

Zero == Fin(FALSE, ZeroM)

\* The number written with the groups of three decimal digits g (most
\* significant first), as in 1,704,067,200,000.
G(g) == Fin(FALSE, [i \in 1..NL |->
            IF i >= U /\ i - U < Len(g) THEN g[Len(g) - (i - U)] ELSE 0])

\* The number written 1eN in the source.
E(n) == Fin(FALSE, [i \in 1..NL |->
            IF i = U + (n \div 3) THEN 10 ^ (n % 3) ELSE 0])

\* One half.
Half == Fin(FALSE, [i \in 1..NL |-> IF i = U - 1 THEN Base \div 2 ELSE 0])

IsNaN(a) == a.k = "nan"
IsFinite(a) == a.k = "fin"

RECURSIVE CmpM(_, _, _)
\* Compares magnitudes from limb i downwards: -1, 0 or 1.
CmpM(a, b, i) ==
    IF i = 0 THEN 0
    ELSE IF a[i] < b[i] THEN -1
    ELSE IF a[i] > b[i] THEN 1
    ELSE CmpM(a, b, i - 1)

RECURSIVE AddM(_, _, _, _)
\* Limbs i.. of a + b + carry.
AddM(a, b, i, c) ==
    IF i > NL THEN <<>>
    ELSE LET s == a[i] + b[i] + c
         IN  <<s % Base>> \o AddM(a, b, i + 1, s \div Base)

RECURSIVE SubM(_, _, _, _)
\* Limbs i.. of a - b - borrow, for a >= b.
SubM(a, b, i, c) ==
    IF i > NL THEN <<>>
    ELSE LET s == a[i] - b[i] - c
         IN  IF s < 0 THEN <<s + Base>> \o SubM(a, b, i + 1, 1)
                      ELSE <<s>> \o SubM(a, b, i + 1, 0)

Neg(a) == Fin(~a.neg, a.m)

\* a + b on finite numbers.
Add(a, b) ==
    IF a.neg = b.neg THEN Fin(a.neg, AddM(a.m, b.m, 1, 0))
    ELSE IF CmpM(a.m, b.m, NL) >= 0 THEN Fin(a.neg, SubM(a.m, b.m, 1, 0))
    ELSE Fin(b.neg, SubM(b.m, a.m, 1, 0))

\* a - b on finite numbers.
Sub(a, b) == Add(a, Neg(b))

\* a * 1000: every limb moves up one place; NaN and the infinities stay.
Mul1000(a) ==
    IF ~IsFinite(a) THEN a
    ELSE Fin(a.neg, [i \in 1..NL |-> IF i = 1 THEN 0 ELSE a.m[i - 1]])

\* a / 1000: every limb moves down one place; NaN and the infinities stay.
Div1000(a) ==
    IF ~IsFinite(a) THEN a
    ELSE Fin(a.neg, [i \in 1..NL |-> IF i = NL THEN 0 ELSE a.m[i + 1]])

IntPart(m) == [i \in 1..NL |-> IF i < U THEN 0 ELSE m[i]]
One == G(<<1>>)

\* Math.floor: towards minus infinity; NaN and the infinities stay.
MathFloor(a) ==
    IF ~IsFinite(a) \/ a.m = IntPart(a.m) THEN a
    ELSE IF a.neg THEN Sub(Fin(TRUE, IntPart(a.m)), One)
    ELSE Fin(FALSE, IntPart(a.m))

\* The signed comparison of finite numbers: -1, 0 or 1.
CmpS(a, b) ==
    IF a.neg /\ ~b.neg THEN -1
    ELSE IF ~a.neg /\ b.neg THEN 1
    ELSE IF a.neg THEN CmpM(b.m, a.m, NL)
    ELSE CmpM(a.m, b.m, NL)

\* a < b as JavaScript evaluates it: false as soon as one side is NaN.
Lt(a, b) ==
    IF IsNaN(a) \/ IsNaN(b) THEN FALSE
    ELSE IF a.k = "ninf" THEN b.k # "ninf"
    ELSE IF a.k = "pinf" THEN FALSE
    ELSE IF b.k = "pinf" THEN TRUE
    ELSE IF b.k = "ninf" THEN FALSE
    ELSE CmpS(a, b) < 0

Le(a, b) == ~IsNaN(a) /\ ~IsNaN(b) /\ (Lt(a, b) \/ a = b)
Gt(a, b) == Lt(b, a)
Ge(a, b) == Le(b, a)

---------------------------------------------------------------------------
(* Values and outcomes.                                                    *)

\* A JavaScript value passed as an expiration: a number, a string, a Date
\* (num is its time value, NaN for an invalid Date) or anything else.
NumberV(n) == [type |-> "number", num |-> n, str |-> ""]
StringV(s) == [type |-> "string", num |-> NaN, str |-> s]
DateV(t) == [type |-> "Date", num |-> t, str |-> ""]
OtherV == [type |-> "other", num |-> NaN, str |-> ""]
NullV == [type |-> "null", num |-> NaN, str |-> ""]
UndefinedV == [type |-> "undefined", num |-> NaN, str |-> ""]

\* The outcome of a call: the value returned, or the TypeError thrown, and
\* the number of times the call read the wall clock (Date.now()).
Return(v, reads) == [kind |-> "return", msg |-> "", val |-> v, reads |-> reads]
Throw(msg, reads) == [kind |-> "throw", msg |-> msg, val |-> NaN, reads |-> reads]

\* No call in progress, no outcome.
NoCall == [fn |-> "none", arg |-> OtherV, now |-> Zero]
NoResult == [kind |-> "none", msg |-> "", val |-> NaN, reads |-> 0]

\* new Date(v): the time value of a Date is a whole number of milliseconds
\* (the fraction of v is dropped), NaN when v is not finite.  The code only
\* builds Dates from values of at most 1e14, inside the range of a Date.
NewDate(v) ==
    IF ~IsFinite(v) THEN NaN ELSE Fin(v.neg, IntPart(v.m))

\* Date.parse(s): the milliseconds since the epoch of the instant s
\* denotes, NaN when s is not a date.
DateParse(s) ==
    CASE s = "2033-05-18T03:33:20.000Z" -> G(<<2, 0, 0, 0, 0>>)
      [] s = "2024-01-01T01:00:00.000Z" -> G(<<1, 704, 70, 800, 0>>)
      [] s = "1970-01-01T00:00:00.000Z" -> Zero
      [] OTHER -> NaN

---------------------------------------------------------------------------
(* epoch, first definition.                                                *)

epochRelative_noFloor(timestamp, clock) ==
    NewDate(Add(clock, Mul1000(timestamp)))

\* 0 < timestamp <= 1e7: an expiration time in seconds from now.
epochRelative(timestamp, clock) ==
    LET currentTimestamp == MathFloor(Div1000(clock))
        expirationTimestamp == Add(currentTimestamp, timestamp)
    IN  NewDate(Mul1000(expirationTimestamp))

\* timestamp <= 1e10: UNIX epoch seconds.
epochSeconds(timestamp) == NewDate(Mul1000(timestamp))

\* timestamp <= 1e13: UNIX epoch milliseconds.
epochMillis(timestamp) == NewDate(timestamp)

epochMicros_asMillis(timestamp) == NewDate(timestamp)

\* timestamp <= 1e16: UNIX epoch microseconds.
epochMicros(timestamp) == NewDate(MathFloor(Div1000(timestamp)))

epoch_acceptZero(timestamp, clock) ==
    IF Ge(timestamp, Zero)
    THEN IF Le(timestamp, E(7)) THEN Return(epochRelative(timestamp, clock), 1)
         ELSE IF Le(timestamp, E(10)) THEN Return(epochSeconds(timestamp), 0)
         ELSE IF Le(timestamp, E(13)) THEN Return(epochMillis(timestamp), 0)
         ELSE IF Le(timestamp, E(16)) THEN Return(epochMicros(timestamp), 0)
         ELSE Throw("Invalid timestamp", 0)
    ELSE Throw("Invalid timestamp", 0)

epoch(timestamp, clock) ==
    IF Gt(timestamp, Zero)
    THEN IF Le(timestamp, E(7)) THEN Return(epochRelative(timestamp, clock), 1)
         ELSE IF Le(timestamp, E(10)) THEN Return(epochSeconds(timestamp), 0)
         ELSE IF Le(timestamp, E(13)) THEN Return(epochMillis(timestamp), 0)
         ELSE IF Le(timestamp, E(16)) THEN Return(epochMicros(timestamp), 0)
         ELSE Throw("Invalid timestamp", 0)
    ELSE Throw("Invalid timestamp", 0)

---------------------------------------------------------------------------
(* expirationIn, first definition.                                         *)

expirationRelative_noFloor(expiration) == expiration

\* 1.1. expiration <= 1e7: a relative expiration in seconds.
expirationRelative(expiration) == MathFloor(expiration)

\* 1.2. expiration <= 1e10: expiration in seconds.
expirationSeconds(expiration, clock) ==
    MathFloor(Sub(Mul1000(expiration), clock))

expirationMillis_noFloor(expiration, clock) == Sub(expiration, clock)

\* 1.3. expiration <= 1e13: expiration in milliseconds.
expirationMillis(expiration, clock) == MathFloor(Sub(expiration, clock))

expirationNumber_acceptZero(expiration, clock) ==
    IF Ge(expiration, Zero) /\ Le(expiration, E(7))
    THEN Return(expirationRelative(expiration), 0)
    ELSE IF Gt(expiration, Zero) /\ Le(expiration, E(10))
    THEN Return(expirationSeconds(expiration, clock), 1)
    ELSE IF Gt(expiration, Zero) /\ Le(expiration, E(13))
    THEN Return(expirationMillis(expiration, clock), 1)
    ELSE Throw("Invalid expiration", 0)

\* 1. A number.
expirationNumber(expiration, clock) ==
    IF Gt(expiration, Zero)
    THEN IF Le(expiration, E(7))
         THEN Return(expirationRelative(expiration), 0)
         ELSE IF Le(expiration, E(10))
         THEN Return(expirationSeconds(expiration, clock), 1)
         ELSE IF Le(expiration, E(13))
         THEN Return(expirationMillis(expiration, clock), 1)
         ELSE Throw("Invalid expiration", 0)
    ELSE Throw("Invalid expiration", 0)

expirationDate_inMillis(time, clock) ==
    IF IsNaN(time) THEN Throw("Invalid expiration", 0)
    ELSE Return(MathFloor(Sub(time, clock)), 1)

expirationDate_noNaNCheck(time, clock) ==
    IF IsNaN(time) THEN Return(NaN, 1)
    ELSE Return(MathFloor(Div1000(Sub(time, clock))), 1)

expirationDate_clockFirst(time, clock) ==
    IF IsNaN(time) THEN Throw("Invalid expiration", 1)
    ELSE Return(MathFloor(Div1000(Sub(time, clock))), 1)

\* 3. A Date, time being expiration.getTime().
expirationDate(time, clock) ==
    IF IsNaN(time) THEN Throw("Invalid expiration", 0)
    ELSE Return(MathFloor(Div1000(Sub(time, clock))), 1)

\* 2. A string is replaced by the number Date.parse() gives.
expirationParsed(expiration) ==
    IF expiration.type = "string"
    THEN NumberV(DateParse(expiration.str))
    ELSE expiration

expirationIn(expiration, clock) ==
    IF expiration.type = "number"
    THEN expirationNumber(expiration.num, clock)
    ELSE LET parsed == expirationParsed(expiration)
         IN  IF parsed.type = "Date"
             THEN expirationDate(parsed.num, clock)
             ELSE Throw("Invalid expiration", 0)

---------------------------------------------------------------------------
(* epoch and expirationIn, second definitions.                             *)

epoch2(timestamp, clock) ==
    IF Ge(timestamp, E(16))
    THEN Return(NewDate(MathFloor(Div1000(timestamp))), 0)
    ELSE IF Ge(timestamp, E(13)) THEN Return(NewDate(timestamp), 0)
    ELSE IF Ge(timestamp, E(10)) THEN Return(NewDate(Mul1000(timestamp)), 0)
    ELSE IF Ge(timestamp, Zero) /\ Le(timestamp, E(7))
    THEN LET currentTimestamp == MathFloor(Div1000(clock))
             expirationTimestamp == Add(currentTimestamp, timestamp)
         IN  Return(NewDate(Mul1000(expirationTimestamp)), 1)
    ELSE Throw("Invalid timestamp", 0)

expirationNumber2(expiration, clock) ==
    IF Ge(expiration, Zero) /\ Le(expiration, E(7))
    THEN Return(expiration, 0)
    ELSE IF Ge(expiration, E(16)) THEN Throw("Invalid expiration", 0)
    ELSE IF Ge(expiration, E(13))
    THEN Return(MathFloor(Div1000(Sub(expiration, clock))), 1)
    ELSE IF Ge(expiration, E(10))
    THEN Return(MathFloor(Div1000(Sub(Mul1000(expiration), clock))), 1)
    ELSE Throw("Invalid expiration", 0)

expirationIn2(expiration, clock) ==
    IF expiration.type = "number"
    THEN expirationNumber2(expiration.num, clock)
    ELSE LET parsed == expirationParsed(expiration)
         IN  IF parsed.type = "Date"
             THEN expirationDate(parsed.num, clock)
             ELSE Throw("Invalid expiration", 0)

---------------------------------------------------------------------------
(* Inputs.                                                                 *)

\* The neighbours a - Delta*step, ..., a, ..., a + Delta*step of a.
RECURSIVE Times(_, _)
Times(k, step) == IF k = 0 THEN Zero ELSE Add(step, Times(k - 1, step))
Around(a, step) ==
    {Add(a, Times(k, step)) : k \in 0..Delta}
        \cup {Sub(a, Times(k, step)) : k \in 0..Delta}

Hour == G(<<3, 600>>)
HourMs == G(<<3, 600, 0>>)

\* Numbers whose halves are exact doubles.
Anchors(clock) ==
    { Zero, One, Hour, E(7), G(<<2, 0, 0, 0>>), E(10), G(<<2, 0, 0, 0, 0>>),
      E(13), G(<<2, 0, 0, 0, 0, 0>>),
      clock, Add(clock, HourMs), Sub(clock, HourMs),
      Add(MathFloor(Div1000(clock)), Hour) }

Numbers(clock) ==
    UNION {Around(a, Half) : a \in Anchors(clock)}
        \cup Around(E(16), G(<<2>>))
        \cup Around(E(17), G(<<16>>))
        \cup {NaN, PInf, NInf}

\* Time values of Dates: whole milliseconds, or NaN (an invalid Date).
DateTimes(clock) ==
    UNION {Around(a, One) : a \in {clock, Add(clock, HourMs), Sub(clock, HourMs)}}
        \cup {Add(clock, G(<<999>>)), Sub(clock, G(<<999>>)),
              G(<<2, 0, 0, 0, 0>>), Zero, NaN}

Strings ==
    { "2033-05-18T03:33:20.000Z", "2024-01-01T01:00:00.000Z",
      "1970-01-01T00:00:00.000Z", "not a date string", "" }

Values(clock) ==
    {NumberV(n) : n \in Numbers(clock)}
        \cup {StringV(s) : s \in Strings}
        \cup {DateV(t) : t \in DateTimes(clock)}
        \cup {OtherV}

---------------------------------------------------------------------------
(* Temporary signed URLs (s3-signed-url.ts).                               *)

\* A path is a sequence of characters.
normalizeS3Path(path) ==
    IF Len(path) > 0 /\ path[1] = "/" THEN Tail(path) ELSE path

\* Whether a value counts as true in `expiration || 3600`.
Truthy(v) ==
    CASE v.type = "number" -> ~IsNaN(v.num) /\ v.num # Zero
      [] v.type = "string" -> v.str # ""
      [] v.type \in {"null", "undefined"} -> FALSE
      [] OTHER -> TRUE

\* expiration || 3600
orDefault(expiration) ==
    IF Truthy(expiration) THEN expiration ELSE NumberV(Hour)

\* The caller's signature options: not given, or an object that has or has
\* not a property expiresIn of its own.
NoSignature == [given |-> FALSE, own |-> FALSE, expiresIn |-> UndefinedV]
Signatures ==
    { NoSignature,
      [given |-> TRUE, own |-> FALSE, expiresIn |-> UndefinedV],
      [given |-> TRUE, own |-> TRUE, expiresIn |-> NumberV(G(<<60>>))],
      [given |-> TRUE, own |-> TRUE, expiresIn |-> UndefinedV] }

signerOptions_expiresInLast(expiresIn, signature) == NumberV(expiresIn)

\* { expiresIn, ...signature }: the expiresIn the signer receives.
signerOptions(expiresIn, signature) ==
    IF signature.given /\ signature.own
    THEN signature.expiresIn
    ELSE NumberV(expiresIn)

NoSign ==
    [ pc |-> "idle", fn |-> "", command |-> "", key |-> <<>>,
      expiration |-> UndefinedV, signature |-> NoSignature,
      arg |-> UndefinedV, ret |-> NoResult, now |-> Zero,
      signerCalls |-> 0, signerExpiresIn |-> UndefinedV,
      events |-> <<>>, error |-> "" ]

signedUrl_signFirst(fn, command, path, expiration, signature, clock) ==
    LET Key == normalizeS3Path(path)
        arg == orDefault(expiration)
        ret == expirationIn(arg, clock)
        base == [NoSign EXCEPT !.fn = fn, !.command = command, !.key = Key,
                    !.expiration = expiration, !.signature = signature,
                    !.arg = arg, !.ret = ret, !.now = clock]
    IN  IF ret.kind = "throw"
        THEN [base EXCEPT !.pc = "rejected", !.error = ret.msg,
                          !.signerCalls = 1,
                          !.events = <<"getSignedUrl", "expirationIn">>]
        ELSE [base EXCEPT !.pc = "awaiting", !.signerCalls = 1,
                 !.signerExpiresIn = signerOptions(ret.val, signature),
                 !.events = <<"getSignedUrl", "expirationIn">>]

\* The body of s3_temporarySignedUrl and of s3_temporarySignedUploadUrl up
\* to the await of getSignedUrl.
signedUrl(fn, command, path, expiration, signature, clock) ==
    LET Key == normalizeS3Path(path)
        arg == orDefault(expiration)
        ret == expirationIn(arg, clock)
        base == [NoSign EXCEPT !.fn = fn, !.command = command, !.key = Key,
                    !.expiration = expiration, !.signature = signature,
                    !.arg = arg, !.ret = ret, !.now = clock]
    IN  IF ret.kind = "throw"
        THEN [base EXCEPT !.pc = "rejected", !.error = ret.msg,
                          !.events = <<"expirationIn">>]
        ELSE [base EXCEPT !.pc = "awaiting", !.signerCalls = 1,
                 !.signerExpiresIn = signerOptions(ret.val, signature),
                 !.events = <<"expirationIn", "getSignedUrl">>]

s3_temporarySignedUrl(path, expiration, signature, clock) ==
    signedUrl("s3_temporarySignedUrl", "GetObjectCommand",
              path, expiration, signature, clock)

s3_temporarySignedUploadUrl(path, expiration, signature, clock) ==
    signedUrl("s3_temporarySignedUploadUrl", "PutObjectCommand",
              path, expiration, signature, clock)

Paths == {<<"a">>, <<"/", "a">>, <<"b">>}

Expirations(clock) == Values(clock) \cup {NullV, UndefinedV}

---------------------------------------------------------------------------
(* The object store and the S3Drive operations (s3.ts, s3-drive.ts).       *)

\* A request sent to the S3 client; dst is the destination key of a copy.
Request(cmd, key, dst) == [cmd |-> cmd, key |-> key, dst |-> dst]

s3_head(path) == Request("HeadObject", normalizeS3Path(path), <<>>)
s3_get(path) == Request("GetObject", normalizeS3Path(path), <<>>)
s3_put(path) == Request("PutObject", normalizeS3Path(path), <<>>)
s3_delete(path) == Request("DeleteObject", normalizeS3Path(path), <<>>)
s3_copy(from, to) ==
    Request("CopyObject", normalizeS3Path(from), normalizeS3Path(to))

\* What the S3 client may answer to a request when the store holds the
\* keys objects: "ok", the error of a missing object, or any other error.
Responses(objects, req) ==
    {"ServiceError"} \cup
    CASE req.cmd = "HeadObject" ->
             IF req.key \in objects THEN {"ok"} ELSE {"NotFound"}
      [] req.cmd \in {"GetObject", "CopyObject"} ->
             IF req.key \in objects THEN {"ok"} ELSE {"NoSuchKey"}
      [] OTHER -> {"ok"}

\* The store after the request has been answered with r.
Effect(objects, req, r) ==
    IF r # "ok" THEN objects
    ELSE CASE req.cmd = "PutObject" -> objects \cup {req.key}
           [] req.cmd = "CopyObject" -> objects \cup {req.dst}
           [] req.cmd = "DeleteObject" -> objects \ {req.key}
           [] OTHER -> objects

Resolved(v) == [kind |-> "resolved", val |-> v]
Rejected(e) == [kind |-> "rejected", val |-> e]
Pending == [kind |-> "none", val |-> ""]

NoDrive ==
    [ pc |-> "idle", op |-> "", path |-> <<>>, to |-> <<>>, step |-> 0,
      existed |-> FALSE, before |-> {}, sent |-> <<>>, replies |-> <<>>,
      outcome |-> Pending ]

\* The operation settles: its promise resolves or rejects.
Settle(d, outcome) == [d EXCEPT !.pc = "settled", !.outcome = outcome]

\* The operation sends its next request and awaits the answer.
Send(d, req) == [d EXCEPT !.step = @ + 1, !.sent = Append(@, req)]

\* head: the answer of HeadObject, NotFound included, as it is.
head(r) == IF r = "ok" THEN Resolved("object") ELSE Rejected(r)

meta_catchAll(r) ==
    IF r = "ok" THEN Resolved("object") ELSE Resolved("undefined")

\* meta: undefined instead of NotFound, any other error rethrown.
meta(r) ==
    IF r = "ok" THEN Resolved("object")
    ELSE IF r = "NotFound" THEN Resolved("undefined")
    ELSE Rejected(r)

\* exists: Boolean(await this.meta(path)).
exists(r) ==
    LET m == meta(r)
    IN  IF m.kind = "rejected" THEN m
        ELSE Resolved(IF m.val = "undefined" THEN "false" ELSE "true")

\* missing: !await this.exists(path).
missing(r) ==
    LET e == exists(r)
    IN  IF e.kind = "rejected" THEN e
        ELSE Resolved(IF e.val = "true" THEN "false" ELSE "true")

\* get: undefined instead of NoSuchKey, any other error rethrown.
get(r) ==
    IF r = "ok" THEN Resolved("object")
    ELSE IF r = "NoSuchKey" THEN Resolved("undefined")
    ELSE Rejected(r)

delete_skipMissing(d, r) ==
    IF d.step = 1
    THEN LET e == exists(r)
         IN  IF e.kind = "rejected" THEN Settle(d, e)
             ELSE IF e.val = "false" THEN Settle(d, Resolved("false"))
             ELSE Send([d EXCEPT !.existed = TRUE], s3_delete(d.path))
    ELSE IF r = "ok"
         THEN Settle(d, Resolved(IF d.existed THEN "true" ELSE "false"))
         ELSE Settle(d, Rejected(r))

\* delete: the existence check, then the delete request.
delete(d, r) ==
    IF d.step = 1
    THEN LET e == exists(r)
         IN  IF e.kind = "rejected" THEN Settle(d, e)
             ELSE Send([d EXCEPT !.existed = (e.val = "true")],
                       s3_delete(d.path))
    ELSE IF r = "ok"
         THEN Settle(d, Resolved(IF d.existed THEN "true" ELSE "false"))
         ELSE Settle(d, Rejected(r))

\* erase: the delete request alone.
erase(d, r) ==
    IF r = "ok" THEN Settle(d, Resolved("void")) ELSE Settle(d, Rejected(r))

move_deleteAnyway(d, r) ==
    IF d.step = 1 THEN Send(d, s3_delete(d.path))
    ELSE IF r = "ok" THEN Settle(d, Resolved("true"))
    ELSE Settle(d, Rejected(r))

\* move: the copy, then the delete of the source.
move(d, r) ==
    IF d.step = 1
    THEN IF r = "ok" THEN Send(d, s3_delete(d.path))
         ELSE Settle(d, Rejected(r))
    ELSE IF r = "ok" THEN Settle(d, Resolved("true"))
    ELSE Settle(d, Rejected(r))

copy(d, r) ==
    IF r = "ok" THEN Settle(d, Resolved("true")) ELSE Settle(d, Rejected(r))

\* put: the put request, then the head of the file.
put(d, r) ==
    IF d.step = 1
    THEN IF r = "ok" THEN Send(d, s3_head(d.path))
         ELSE Settle(d, Rejected(r))
    ELSE Settle(d, head(r))

Ops == { "head", "meta", "exists", "missing", "get", "delete", "erase",
         "move", "copy", "put" }

\* The request an operation sends when it is called.
FirstRequest(op, path, to) ==
    CASE op \in {"head", "meta", "exists", "missing", "delete"} ->
             s3_head(path)
      [] op = "get" -> s3_get(path)
      [] op = "erase" -> s3_delete(path)
      [] op \in {"move", "copy"} -> s3_copy(path, to)
      [] OTHER -> s3_put(path)

\* The operation after the answer r to the request it awaits.
Continue(d, r) ==
    CASE d.op = "head" -> Settle(d, head(r))
      [] d.op = "meta" -> Settle(d, meta(r))
      [] d.op = "exists" -> Settle(d, exists(r))
      [] d.op = "missing" -> Settle(d, missing(r))
      [] d.op = "get" -> Settle(d, get(r))
      [] d.op = "delete" -> delete(d, r)
      [] d.op = "erase" -> erase(d, r)
      [] d.op = "move" -> move(d, r)
      [] d.op = "copy" -> copy(d, r)
      [] OTHER -> put(d, r)

---------------------------------------------------------------------------
(* The state machine: one call at a time, under a wall clock that moves.   *)


Init ==
    /\ now = G(<<1, 704, 67, 200, 0>>)
    /\ ticks = 0
    /\ call = NoCall
    /\ result = NoResult
    /\ sign = NoSign
    /\ store = {}
    /\ drive = NoDrive

Tick ==
    /\ ticks < MaxTicks
    /\ ticks' = ticks + 1
    /\ \E d \in {G(<<1>>), G(<<999>>)} : now' = Add(now, d)
    /\ UNCHANGED <<call, result, sign, store, drive>>

\* A call of fn with argument arg while the wall clock shows now.
Called(fn, arg, outcome) ==
    /\ call' = [fn |-> fn, arg |-> arg, now |-> now]
    /\ result' = outcome
    /\ UNCHANGED <<now, ticks, sign, store, drive>>

CallEpoch ==
    /\ call = NoCall
    /\ \E x \in Numbers(now) : Called("epoch", NumberV(x), epoch(x, now))

CallExpirationIn ==
    /\ call = NoCall
    /\ \E v \in Values(now) : Called("expirationIn", v, expirationIn(v, now))

CallEpoch2 ==
    /\ call = NoCall
    /\ \E x \in Numbers(now) : Called("epoch2", NumberV(x), epoch2(x, now))

CallExpirationIn2 ==
    /\ call = NoCall
    /\ \E v \in Values(now) : Called("expirationIn2", v, expirationIn2(v, now))

\* The caller has consumed the outcome of the call.
Done ==
    /\ call # NoCall
    /\ call' = NoCall
    /\ result' = NoResult
    /\ UNCHANGED <<now, ticks, sign, store, drive>>

Next ==
    \/ Tick
    \/ Done
    \/ CallEpoch
    \/ CallExpirationIn
    \/ CallEpoch2
    \/ CallExpirationIn2

Spec == Init /\ [][Next]_vars

---------------------------------------------------------------------------
(* Signed URLs: the call up to its await, then the signer settles.         *)

SignCall ==
    /\ sign.pc = "idle"
    /\ \E path \in Paths, expiration \in Expirations(now),
          signature \in Signatures :
          \/ sign' = s3_temporarySignedUrl(path, expiration, signature, now)
          \/ sign' = s3_temporarySignedUploadUrl(path, expiration,
                                                 signature, now)
    /\ UNCHANGED <<now, ticks, call, result, store, drive>>

\* getSignedUrl resolves with the URL or rejects.
SignerSettles ==
    /\ sign.pc = "awaiting"
    /\ \/ sign' = [sign EXCEPT !.pc = "resolved",
                       !.events = Append(@, "resolved")]
       \/ sign' = [sign EXCEPT !.pc = "rejected", !.error = "SignerError",
                       !.events = Append(@, "rejected")]
    /\ UNCHANGED <<now, ticks, call, result, store, drive>>

SignDone ==
    /\ sign.pc \in {"resolved", "rejected"}
    /\ sign' = NoSign
    /\ UNCHANGED <<now, ticks, call, result, store, drive>>

NextSign ==
    \/ Tick
    \/ SignCall
    \/ SignerSettles
    \/ SignDone

SpecSign == Init /\ [][NextSign]_vars

---------------------------------------------------------------------------
(* S3Drive: an operation is called, the S3 client answers each request.    *)

DriveCall ==
    /\ drive.pc = "idle"
    /\ \E op \in Ops, path \in Paths, to \in Paths :
          drive' = Send([NoDrive EXCEPT !.pc = "awaiting", !.op = op,
                            !.path = path,
                            !.to = IF op \in {"move", "copy"} THEN to
                                   ELSE <<>>,
                            !.before = store],
                        FirstRequest(op, path, to))
    /\ UNCHANGED <<now, ticks, call, result, sign, store>>

DriveRespond ==
    /\ drive.pc = "awaiting"
    /\ LET req == drive.sent[Len(drive.sent)]
       IN  \E r \in Responses(store, req) :
              /\ store' = Effect(store, req, r)
              /\ drive' = Continue([drive EXCEPT !.replies = Append(@, r)], r)
    /\ UNCHANGED <<now, ticks, call, result, sign>>

DriveDone ==
    /\ drive.pc = "settled"
    /\ drive' = NoDrive
    /\ UNCHANGED <<now, ticks, call, result, sign, store>>

NextDrive ==
    \/ DriveCall
    \/ DriveRespond
    \/ DriveDone

SpecDrive == Init /\ [][NextDrive]_vars
---------------------------------------------------------------------------
(* Vocabulary of the properties.                                           *)

\* The instant the scenario of the specification freezes the clock at,
\* 2024-01-01T00:00:00.000Z, and later readings of the clock.
Clocks == {G(<<1, 704, 67, 200, 0>>), G(<<1, 704, 67, 200, 999>>),
           G(<<1, 800, 0, 0, 1>>)}

IsWhole(a) == IsFinite(a) /\ a.m = IntPart(a.m)

\* r is the floor of v: the whole number with r <= v < r + 1.
IsFloorOf(r, v) == IsWhole(r) /\ Le(r, v) /\ Lt(v, Add(r, One))

\* r is v without its fraction (v >= 0).
IsWholePartOf(r, v) == Ge(v, Zero) /\ IsFloorOf(r, v)

Returned == result.kind = "return"
Threw(msg) == result.kind = "throw" /\ result.msg = msg /\ IsNaN(result.val)

X == call.arg.num
NumberCall(fn) == call.fn = fn /\ call.arg.type = "number"
InBucket(lo, hi) == IsFinite(X) /\ Lt(lo, X) /\ Le(X, hi)

---------------------------------------------------------------------------
(* C1.  epoch, absolute buckets.                                           *)

\* C1 as stated: for every number x in an absolute bucket the instant epoch
\* returns has x*1000 milliseconds since the epoch when 1e7 < x <= 1e10,
\* exactly x when 1e10 < x <= 1e13 and floor(x/1000) when 1e13 < x <= 1e16.
C1_AsStated ==
    NumberCall("epoch") =>
        /\ InBucket(E(7), E(10)) => Returned /\ result.val = Mul1000(X)
        /\ InBucket(E(10), E(13)) => Returned /\ result.val = X
        /\ InBucket(E(13), E(16)) =>
               Returned /\ IsFloorOf(result.val, Div1000(X))

\* C1 as amended: in an absolute bucket the instant epoch returns has the
\* whole number of milliseconds since the epoch that x*1000 (1e7 < x <=
\* 1e10), x (1e10 < x <= 1e13) or x/1000 (1e13 < x <= 1e16) has when its
\* fraction is dropped; the clock is not read and the instant is the same
\* at every current time; the seconds, milliseconds and microseconds
\* representations of a whole-second instant give the same instant.
C1_AbsoluteBuckets ==
    NumberCall("epoch") =>
        /\ InBucket(E(7), E(10)) =>
               /\ Returned /\ IsWholePartOf(result.val, Mul1000(X))
               /\ IsWhole(X) =>
                      /\ result.val = Mul1000(X)
                      /\ epoch(Mul1000(X), call.now) = result
                      /\ epoch(Mul1000(Mul1000(X)), call.now) = result
        /\ InBucket(E(10), E(13)) =>
               /\ Returned /\ IsWholePartOf(result.val, X)
               /\ IsWhole(X) => result.val = X
        /\ InBucket(E(13), E(16)) =>
               Returned /\ IsWholePartOf(result.val, Div1000(X))
        /\ InBucket(E(7), E(16)) =>
               /\ result.reads = 0
               /\ \A c \in Clocks : epoch(X, c) = result
        /\ X \in {G(<<2, 0, 0, 0>>), G(<<2, 0, 0, 0, 0>>),
                  G(<<2, 0, 0, 0, 0, 0>>)} =>
               result.val = DateParse("2033-05-18T03:33:20.000Z")

\* epoch(10000000000.5) is the instant 10000000000 ms, not 10000000000.5.
C1_Witness ==
    /\ NumberCall("epoch") /\ X = Add(E(10), Half)
    /\ Returned /\ result.val = E(10)

---------------------------------------------------------------------------
(* C2.  epoch, relative bucket.                                            *)

\* C2: for 0 < x <= 1e7 (1e7 included) epoch returns the instant whose
\* milliseconds since the epoch are (floor(now_ms/1000) + x) * 1000 without
\* its fraction; it is never later than now_ms + 1000*x and less than one
\* second earlier than it.
C2_RelativeBucket ==
    NumberCall("epoch") /\ InBucket(Zero, E(7)) =>
        LET target == Add(call.now, Mul1000(X))
        IN  /\ Returned
            /\ IsWholePartOf(result.val,
                   Mul1000(Add(MathFloor(Div1000(call.now)), X)))
            /\ Le(result.val, target)
            /\ Lt(Sub(target, result.val), E(3))
            /\ result.reads = 1

\* epoch(1e7) at now = ...200,999 ms: 1e7 seconds after the whole second.
C2_Witness ==
    /\ NumberCall("epoch") /\ X = E(7)
    /\ call.now = G(<<1, 704, 67, 200, 999>>)
    /\ Returned /\ result.val = G(<<1, 714, 67, 200, 0>>)

---------------------------------------------------------------------------
(* C3.  epoch, errors.                                                     *)

\* C3: epoch throws TypeError 'Invalid timestamp', and returns no Date,
\* exactly when its input is not a finite number x with 0 < x <= 1e16:
\* every x <= 0, every x > 1e16, NaN, +Infinity and -Infinity.
C3_InvalidTimestamp ==
    NumberCall("epoch") =>
        IF IsFinite(X) /\ ~X.neg /\ X # Zero /\ CmpM(X.m, E(16).m, NL) <= 0
        THEN Returned /\ IsWhole(result.val)
        ELSE Threw("Invalid timestamp")

\* epoch(1e17) has thrown.
C3_Witness ==
    NumberCall("epoch") /\ X = E(17) /\ Threw("Invalid timestamp")

---------------------------------------------------------------------------
(* C4.  expirationIn, relative bucket.                                     *)

\* C4: for 0 < x <= 1e7 expirationIn returns floor(x) at every current
\* time, without reading the clock.
C4_RelativeSeconds ==
    NumberCall("expirationIn") /\ InBucket(Zero, E(7)) =>
        /\ Returned /\ IsFloorOf(result.val, X)
        /\ result.reads = 0
        /\ \A c \in Clocks : expirationIn(call.arg, c) = result

\* expirationIn(3600.5) has returned 3600 after the clock has moved.
C4_Witness ==
    /\ NumberCall("expirationIn") /\ X = Add(Hour, Half) /\ ticks > 0
    /\ Returned /\ result.val = Hour

---------------------------------------------------------------------------
(* C5.  expirationIn, epoch seconds.                                       *)

\* C5: for 1e7 < x <= 1e10 expirationIn returns the number of whole
\* seconds between now and the instant x, floor((x*1000 - now_ms) / 1000).
C5_SecondsBucketInSeconds ==
    NumberCall("expirationIn") /\ InBucket(E(7), E(10)) =>
        /\ Returned
        /\ IsFloorOf(result.val, Div1000(Sub(Mul1000(X), call.now)))

---------------------------------------------------------------------------
(* C6.  expirationIn, epoch milliseconds.                                  *)

\* C6: for 1e10 < x <= 1e13 expirationIn returns floor((x - now_ms) / 1000)
\* seconds, so that expirationIn(now_ms + k*1000) is within 1 of k.
C6_MillisBucketInSeconds ==
    NumberCall("expirationIn") /\ InBucket(E(10), E(13)) =>
        /\ Returned
        /\ IsFloorOf(result.val, Div1000(Sub(X, call.now)))
        /\ X = Add(call.now, HourMs) =>
               /\ Le(Sub(Hour, One), result.val)
               /\ Le(result.val, Add(Hour, One))

---------------------------------------------------------------------------
(* C7.  expirationIn, Date input.                                          *)

ValidDateCall(fn) ==
    call.fn = fn /\ call.arg.type = "Date" /\ ~IsNaN(call.arg.num)

\* C7: for a valid Date at t milliseconds expirationIn returns
\* floor((t - now_ms) / 1000), zero and negative results included; one hour
\* after now gives 3600 and one hour before now gives -3600.
C7_DateInput ==
    ValidDateCall("expirationIn") =>
        /\ Returned
        /\ IsFloorOf(result.val, Div1000(Sub(X, call.now)))
        /\ X = Add(call.now, HourMs) => result.val = Hour
        /\ X = Sub(call.now, HourMs) => result.val = Neg(Hour)
        /\ X = call.now => result.val = Zero

\* A Date one hour and one millisecond before now has given -3601.
C7_Witness ==
    /\ ValidDateCall("expirationIn")
    /\ X = Sub(call.now, Add(HourMs, One))
    /\ Returned /\ result.val = Neg(Add(Hour, One))

---------------------------------------------------------------------------
(* C8.  expirationIn, textual input.                                       *)

\* C8: a string the date parser resolves to a valid instant t is handled
\* like the Date at t: the call returns floor((t - now_ms) / 1000).
C8_ParsedStringLikeDate ==
    call.fn = "expirationIn" /\ call.arg.type = "string"
    /\ ~IsNaN(DateParse(call.arg.str)) =>
        /\ Returned
        /\ result = expirationIn(DateV(DateParse(call.arg.str)), call.now)

---------------------------------------------------------------------------
(* C9.  expirationIn, errors.                                              *)

Unclassifiable(v) ==
    \/ v.type = "number" /\
           (~IsFinite(v.num) \/ v.num.neg \/ CmpM(v.num.m, E(13).m, NL) > 0)
    \/ v.type = "string" /\ IsNaN(DateParse(v.str))
    \/ v.type = "Date" /\ IsNaN(v.num)
    \/ v.type \notin {"number", "string", "Date"}

---------------------------------------------------------------------------
(* C10.  expirationIn(0).                                                  *)

ZeroCall(fn) == call.fn = fn /\ call.arg = NumberV(Zero)

---------------------------------------------------------------------------
(* C11.  expirationIn returns whole numbers.                               *)

\* C11: every successful call of expirationIn (first definition) returns
\* an integer, for non-integer numbers in every numeric bucket and for
\* Dates, at every current time.
C11_IntegerResult ==
    call.fn = "expirationIn" /\ Returned => IsWhole(result.val)

\* expirationIn(now_ms + 3600000.5) has returned a whole number.
C11_Witness ==
    /\ NumberCall("expirationIn") /\ ticks > 0
    /\ X = Add(Add(call.now, HourMs), Half)
    /\ Returned /\ result.val = HourMs

---------------------------------------------------------------------------
(* C12.  Readings of the wall clock.                                       *)

\* C12: a call of epoch or expirationIn (either definition) reads the wall
\* clock at most once; a call that throws, and a call of expirationIn on
\* its relative-seconds path, does not read it.
C12_ClockReadAtMostOnce ==
    call # NoCall =>
        /\ result.reads \in {0, 1}
        /\ result.kind = "throw" => result.reads = 0
        /\ NumberCall("expirationIn") /\ InBucket(Zero, E(7)) =>
               result.reads = 0
        /\ NumberCall("expirationIn2") /\ IsFinite(X) /\ Ge(X, Zero)
           /\ Le(X, E(7)) => result.reads = 0

\* expirationIn of an invalid Date has thrown without reading the clock,
\* after the clock has moved.
C12_Witness ==
    /\ call.fn = "expirationIn" /\ call.arg = DateV(NaN) /\ ticks > 0
    /\ result.kind = "throw" /\ result.reads = 0

---------------------------------------------------------------------------
(* C18.  The two definitions of epoch.                                     *)

StrictlyInside(lo, hi) == IsFinite(X) /\ Lt(lo, X) /\ Lt(X, hi)

\* C18: for every x strictly inside a bucket (0 < x < 1e7, 1e7 < x < 1e10,
\* 1e10 < x < 1e13 or 1e13 < x < 1e16) the two definitions of epoch return
\* the same instant under the same clock.
C18_SameInsideBuckets ==
    LET inside == \/ StrictlyInside(Zero, E(7))
                  \/ StrictlyInside(E(7), E(10))
                  \/ StrictlyInside(E(10), E(13))
                  \/ StrictlyInside(E(13), E(16))
    IN  /\ NumberCall("epoch") /\ inside => epoch2(X, call.now) = result
        /\ NumberCall("epoch2") /\ inside => epoch(X, call.now) = result
---------------------------------------------------------------------------
(* C13.  The default expiration of the signed URLs.                        *)

Absent(v) == v.type \in {"null", "undefined"}

\* C13: s3_temporarySignedUrl and s3_temporarySignedUploadUrl call
\* expirationIn with 3600 exactly when the expiration is null or undefined,
\* and with the expiration unchanged for every other value, the number 0
\* included.
C13_DefaultOnlyWhenAbsent ==
    sign.pc # "idle" =>
        sign.arg = IF Absent(sign.expiration) THEN NumberV(Hour)
                   ELSE sign.expiration

---------------------------------------------------------------------------
(* C14.  The expiry the signer receives.                                   *)

\* C14 as stated: whenever the signer is invoked, the expiresIn it
\* receives is the value expirationIn returned in that call, whatever the
\* caller's options.
C14_AsStated ==
    sign.signerCalls > 0 => sign.signerExpiresIn = NumberV(sign.ret.val)

\* C14 as amended: whenever the signer is invoked, the expiresIn it
\* receives is the value expirationIn returned in that call, unless the
\* caller's signature options have an expiresIn of their own, which the
\* signer then receives instead.
C14_SignerExpiresIn ==
    sign.signerCalls > 0 =>
        /\ sign.ret.kind = "return"
        /\ IF sign.signature.given /\ sign.signature.own
           THEN sign.signerExpiresIn = sign.signature.expiresIn
           ELSE sign.signerExpiresIn = NumberV(sign.ret.val)

\* The signer has been invoked with the 3600 that expirationIn returned,
\* the caller having given signature options without expiresIn.
C14_Witness ==
    /\ sign.pc = "resolved" /\ sign.signerCalls = 1
    /\ sign.signature.given /\ ~sign.signature.own
    /\ sign.expiration = DateV(Add(sign.now, HourMs))
    /\ sign.signerExpiresIn = NumberV(Hour)

---------------------------------------------------------------------------
(* C19.  expirationIn before the signer.                                   *)

\* C19: if expirationIn throws 'Invalid expiration' the signed-URL call
\* rejects with that error and the signer is never invoked; the signer is
\* invoked at most once per call, and only after expirationIn has returned
\* a number.
C19_ExpirationBeforeSigner ==
    sign.pc # "idle" =>
        /\ sign.ret.kind = "throw" =>
               /\ sign.pc = "rejected" /\ sign.error = "Invalid expiration"
               /\ sign.signerCalls = 0
               /\ sign.events = <<"expirationIn">>
        /\ sign.signerCalls \in {0, 1}
        /\ sign.signerCalls = 1 =>
               /\ sign.ret.kind = "return" /\ IsFinite(sign.ret.val)
               /\ Len(sign.events) >= 2
               /\ sign.events[1] = "expirationIn"
               /\ sign.events[2] = "getSignedUrl"

\* A signed upload URL asked with the expiration -1 has been rejected
\* without a call of the signer.
C19_Witness ==
    /\ sign.fn = "s3_temporarySignedUploadUrl" /\ sign.pc = "rejected"
    /\ sign.expiration = NumberV(Neg(One))
    /\ sign.error = "Invalid expiration" /\ sign.signerCalls = 0

---------------------------------------------------------------------------
(* Claims about S3Drive.                                                   *)

Key(path) == normalizeS3Path(path)
Answered(n) == Len(drive.replies) >= n
Failed(n) == Answered(n) /\ drive.replies[n] # "ok"

\* C15: move sends the copy request first and the delete of the source
\* only after the copy has succeeded. A failed copy means no delete is
\* sent, the move rejects and the source is as it was; a failed delete
\* after a successful copy means the move rejects with the source and
\* the destination both present; the move resolves, to true, only after
\* the copy and the delete have both succeeded.
C15_MoveCopyThenDelete ==
    drive.op = "move" =>
        /\ drive.sent[1] = s3_copy(drive.path, drive.to)
        /\ Len(drive.sent) <= 2
        /\ (Len(drive.sent) = 2) =>
               (drive.sent[2] = s3_delete(drive.path)
                    /\ drive.replies[1] = "ok")
        /\ Failed(1) =>
               /\ Len(drive.sent) = 1
               /\ drive.outcome = Rejected(drive.replies[1])
               /\ store = drive.before
        /\ Failed(2) =>
               /\ drive.outcome = Rejected(drive.replies[2])
               /\ Key(drive.path) \in store
               /\ Key(drive.to) \in store
        /\ (drive.outcome.kind = "resolved") =>
               (drive.outcome = Resolved("true")
                    /\ drive.replies = <<"ok", "ok">>)

\* A move of a/ to b whose copy succeeded and whose delete failed.
C15_Witness ==
    /\ drive.op = "move" /\ drive.pc = "settled"
    /\ Key(drive.path) # Key(drive.to)
    /\ drive.replies = <<"ok", "ServiceError">>
    /\ drive.outcome = Rejected("ServiceError")
    /\ {Key(drive.path), Key(drive.to)} \subseteq store

\* C16: delete sends the existence check first and the delete request
\* after it, whether the check found the object or not, and resolves to
\* true when the object existed at the check and to false when it was
\* missing; when the check fails with an error other than NotFound the
\* delete rejects with it and sends no delete request. erase sends the
\* delete request alone.
C16_DeleteChecksFirst ==
    /\ drive.op = "delete" =>
        /\ drive.sent[1] = s3_head(drive.path)
        /\ (Answered(1) /\ drive.replies[1] \in {"ok", "NotFound"}) =>
               /\ Len(drive.sent) = 2
               /\ drive.sent[2] = s3_delete(drive.path)
               /\ drive.replies[1] = "ok" <=> Key(drive.path) \in drive.before
        /\ (Answered(1) /\ drive.replies[1] \notin {"ok", "NotFound"}) =>
               /\ Len(drive.sent) = 1
               /\ drive.outcome = Rejected(drive.replies[1])
        /\ (drive.outcome.kind = "resolved") =>
               drive.outcome =
                   Resolved(IF Key(drive.path) \in drive.before
                            THEN "true" ELSE "false")
    /\ drive.op = "erase" => drive.sent = <<s3_delete(drive.path)>>

\* A delete of a missing object: the delete request was sent all the
\* same and the delete resolved to false.
C16_Witness ==
    /\ drive.op = "delete" /\ drive.pc = "settled"
    /\ Key(drive.path) \notin drive.before
    /\ drive.replies = <<"NotFound", "ok">>
    /\ drive.sent = <<s3_head(drive.path), s3_delete(drive.path)>>
    /\ drive.outcome = Resolved("false")

\* The error the S3 client answers for an object that is not there.
Absence(op) == IF op = "get" THEN "NoSuchKey" ELSE "NotFound"

\* C17: when the S3 client answers that the object is not there, head
\* rejects with NotFound, meta and get resolve to undefined, exists to
\* false and missing to true; meta turns NotFound alone and get
\* NoSuchKey alone into undefined; any other error of the client is
\* the rejection of the operation, unchanged; exists resolves to true
\* exactly when the object is in the store and missing resolves to the
\* opposite value against the same store.
C17_MissingObject ==
    (drive.op \in {"head", "meta", "exists", "missing", "get"}
         /\ drive.pc = "settled") =>
        LET r == drive.replies[1]
            there == Key(drive.path) \in drive.before
        IN  /\ Len(drive.sent) = 1 /\ Len(drive.replies) = 1
            /\ (r = Absence(drive.op)) <=> (~there /\ r # "ServiceError")
            /\ (r = Absence(drive.op)) =>
                   drive.outcome =
                       CASE drive.op = "head" -> Rejected("NotFound")
                         [] drive.op = "exists" -> Resolved("false")
                         [] drive.op = "missing" -> Resolved("true")
                         [] OTHER -> Resolved("undefined")
            /\ (drive.outcome = Resolved("undefined")) =>
                   (drive.op \in {"meta", "get"} /\ r = Absence(drive.op))
            /\ (r \notin {"ok", Absence(drive.op)}) =>
                   drive.outcome = Rejected(r)
            /\ (drive.op = "exists" /\ drive.outcome.kind = "resolved") =>
                   drive.outcome =
                       Resolved(IF there THEN "true" ELSE "false")
            /\ (drive.op = "missing" /\ drive.outcome.kind = "resolved") =>
                   drive.outcome =
                       Resolved(IF there THEN "false" ELSE "true")
            /\ (drive.op = "missing") =>
                   \/ exists(r).kind = "rejected" /\ drive.outcome = exists(r)
                   \/ /\ exists(r).kind = "resolved"
                      /\ drive.outcome.kind = "resolved"
                      /\ drive.outcome.val # exists(r).val

\* meta of an object that is not in the store resolved to undefined.
C17_Witness ==
    /\ drive.op = "meta" /\ drive.pc = "settled"
    /\ Key(drive.path) \notin drive.before
    /\ drive.replies = <<"NotFound">>
    /\ drive.outcome = Resolved("undefined")
===========================================================================
